---- MODULE Spec2Model ----
(***************************************************************************)
(* Model of XBoxController (src/XBoxController.py): a callback registry    *)
(* over pygame joystick events.  Analog values are integers in tenths      *)
(* (0.2 is 2); negation and comparison are exact in both representations.  *)
(***************************************************************************)
EXTENDS Integers, Sequences, FiniteSets, TLC

\* ---------------------------------------------------------------- bounds
NumRouters == 2      \* router instances a scenario may construct
MaxOps == 4          \* calls made on the instances in one scenario
MaxVal == 3          \* largest magnitude of a raw axis value, in tenths
MaxButton == 10      \* largest raw button index the device reports
MaxAxis == 6         \* largest raw axis index the device reports
MaxBatch == 2        \* raw events the device queues between two ticks

\* ------------------------------------------------------ program constants
DefaultHz == 20
DemoHz == 60
DefaultThreshold == 2
DemoThreshold == 3

None == "None"

BUTTONS ==
  (0 :> "a") @@ (1 :> "b") @@ (2 :> "x") @@ (3 :> "y") @@
  (4 :> "left_bumper") @@ (5 :> "right_bumper") @@ (6 :> "back") @@
  (7 :> "start") @@ (8 :> "left_stick_button") @@ (9 :> "right_stick_button")

AXIS ==
  (0 :> "left_stick_x") @@ (1 :> "left_stick_y") @@ (2 :> "right_stick_x") @@
  (3 :> "right_stick_y") @@ (4 :> "left_trigger") @@ (5 :> "right_trigger")

\* The 15 channel names of the class-level registry.
Channels ==
  {"x", "y", "a", "b", "left_trigger", "right_trigger", "left_bumper",
   "right_bumper", "back", "start", "left_stick", "right_stick",
   "left_stick_button", "right_stick_button", "hat"}

\* The class attribute _callbacks as the class statement leaves it.
DefaultCallbacks == [k \in Channels |-> None]

\* Callables a caller registers; "dbg" stands for the lambdas of
\* setDebugCallbacks.
Callbacks == {"f", "g"}

\* Keys a caller passes to setCallback: a button, a stick and a trigger of
\* the demo, and a name that is not a channel.
Keys == {"a", "left_stick", "right_trigger", "bogus"}

\* The dictionary setDebugCallbacks passes to setCallbacks.
DebugCallbacks == [k \in Channels |-> "dbg"]

\* Dictionaries a caller passes to setCallbacks: empty and partial ones.
Mappings ==
  { [k \in {} |-> None],
    ("a" :> "f") @@ ("hat" :> "g") }

RouterIds == 1..NumRouters

Abs(v) == IF v < 0 THEN -v ELSE v

Values == (-MaxVal)..MaxVal
HatValues == {<<0, 0>>, <<-1, 1>>, <<1, 0>>}

\* pygame events: buttons carry a button index, axis motions an axis index
\* and a value, hat motions a pair; val is the tuple of the payload.
ButtonEvent(t, i) == [type |-> t, idx |-> i, val |-> <<>>]
AxisEvent(i, v) == [type |-> "JOYAXISMOTION", idx |-> i, val |-> <<v>>]
HatEvent(h) == [type |-> "JOYHATMOTION", idx |-> 0, val |-> h]
OtherEvent == [type |-> "QUIT", idx |-> 0, val |-> <<>>]
NoEvent == [type |-> "NOEVENT", idx |-> 0, val |-> <<>>]

Events ==
  {ButtonEvent(t, i) : t \in {"JOYBUTTONDOWN", "JOYBUTTONUP"}, i \in 0..MaxButton}
  \cup {AxisEvent(i, v) : i \in 0..MaxAxis, v \in Values}
  \cup {HatEvent(h) : h \in HatValues}
  \cup {OtherEvent}

\* ------------------------------------------------------------- dispatch
\* Result of one __handleEvent: the exception that left it ("none" when it
\* returned) and the callback invocations it made, in order.  A hat callback
\* receives the pair itself; args lists its two components.
Returned(calls) == [err |-> "none", calls |-> calls]
Raised(e) == [err |-> e, calls |-> <<>>]
Call(chan, cb, args) == [chan |-> chan, cb |-> cb, args |-> args]

FireTwice(cbs, chan, args) ==
  IF chan \notin DOMAIN cbs THEN Raised("KeyError")
  ELSE IF cbs[chan] # None
    THEN Returned(<<Call(chan, cbs[chan], args), Call(chan, cbs[chan], args)>>)
  ELSE Returned(<<>>)

\* if self._callbacks[chan]: self._callbacks[chan](*args)
Fire(cbs, chan, args) ==
  IF chan \notin DOMAIN cbs THEN Raised("KeyError")
  ELSE IF cbs[chan] # None THEN Returned(<<Call(chan, cbs[chan], args)>>)
  ELSE Returned(<<>>)

ButtonArgSwapped(type) == IF type = "JOYBUTTONDOWN" THEN 1 ELSE 0

\* The argument a button callback receives.
ButtonArg(type) == IF type = "JOYBUTTONDOWN" THEN 0 ELSE 1

ButtonBranchLenient(cbs, ev) ==
  IF ev.idx \notin DOMAIN BUTTONS THEN Returned(<<>>)
  ELSE Fire(cbs, BUTTONS[ev.idx], <<ButtonArg(ev.type)>>)

\* Button branches: the channel is BUTTONS[event.button].
ButtonBranch(cbs, ev) ==
  IF ev.idx \notin DOMAIN BUTTONS THEN Raised("KeyError")
  ELSE Fire(cbs, BUTTONS[ev.idx], <<ButtonArg(ev.type)>>)

OutsideDeadZoneInclusive(v, thr) == Abs(v) >= thr

\* abs(event.value) > self.sticks_threshold
OutsideDeadZone(v, thr) == Abs(v) > thr

\* The (axis, value) pair a stick callback receives: X unchanged, Y negated.
StickArgs(xAxis, ev) ==
  IF ev.idx = xAxis THEN <<0, ev.val[1]>> ELSE <<1, -ev.val[1]>>

TriggerFiresOutsideDeadZone(v, thr) == Abs(v) > thr

\* The trigger branches test the axis index only.
TriggerFires(v, thr) == TRUE

AxisBranchRescaled(cbs, thr, ev) ==
  LET scaled == [ev EXCEPT !.val = <<IF ev.val[1] < 0 THEN ev.val[1] + thr
                                     ELSE ev.val[1] - thr>>]
  IN IF ev.idx \in {0, 1} /\ OutsideDeadZone(ev.val[1], thr)
       THEN Fire(cbs, "left_stick", StickArgs(0, scaled))
     ELSE IF ev.idx \in {2, 3} /\ OutsideDeadZone(ev.val[1], thr)
       THEN Fire(cbs, "right_stick", StickArgs(2, scaled))
     ELSE IF ev.idx = 4 /\ TriggerFires(ev.val[1], thr)
       THEN Fire(cbs, "left_trigger", <<ev.val[1]>>)
     ELSE IF ev.idx = 5 /\ TriggerFires(ev.val[1], thr)
       THEN Fire(cbs, "right_trigger", <<ev.val[1]>>)
     ELSE Returned(<<>>)

\* Axis branch: the if/elif chain over sticks and triggers.
AxisBranch(cbs, thr, ev) ==
  IF ev.idx \in {0, 1} /\ OutsideDeadZone(ev.val[1], thr)
    THEN Fire(cbs, "left_stick", StickArgs(0, ev))
  ELSE IF ev.idx \in {2, 3} /\ OutsideDeadZone(ev.val[1], thr)
    THEN Fire(cbs, "right_stick", StickArgs(2, ev))
  ELSE IF ev.idx = 4 /\ TriggerFires(ev.val[1], thr)
    THEN Fire(cbs, "left_trigger", <<ev.val[1]>>)
  ELSE IF ev.idx = 5 /\ TriggerFires(ev.val[1], thr)
    THEN Fire(cbs, "right_trigger", <<ev.val[1]>>)
  ELSE Returned(<<>>)

ParseEventHatInverted(cbs, thr, ev) ==
  IF ev.type \in {"JOYBUTTONDOWN", "JOYBUTTONUP"} THEN ButtonBranch(cbs, ev)
  ELSE IF ev.type = "JOYAXISMOTION" THEN AxisBranch(cbs, thr, ev)
  ELSE IF ev.type = "JOYHATMOTION"
    THEN Fire(cbs, "hat", <<ev.val[1], 0 - ev.val[2]>>)
  ELSE Returned(<<>>)

\* PARSE EVENT: the if/elif chain over the event type.
ParseEvent(cbs, thr, ev) ==
  IF ev.type \in {"JOYBUTTONDOWN", "JOYBUTTONUP"} THEN ButtonBranch(cbs, ev)
  ELSE IF ev.type = "JOYAXISMOTION" THEN AxisBranch(cbs, thr, ev)
  ELSE IF ev.type = "JOYHATMOTION" THEN Fire(cbs, "hat", ev.val)
  ELSE Returned(<<>>)

\* DEBUG branch: printing looks the raw index up in BUTTONS or AXIS.
DebugRaises(ev) ==
  \/ ev.type \in {"JOYBUTTONDOWN", "JOYBUTTONUP"} /\ ev.idx \notin DOMAIN BUTTONS
  \/ ev.type = "JOYAXISMOTION" /\ ev.idx \notin DOMAIN AXIS

\* __handleEvent on a router whose registry is cbs.
HandleEvent(cbs, thr, debug, ev) ==
  IF debug /\ DebugRaises(ev) THEN Raised("KeyError")
  ELSE ParseEvent(cbs, thr, ev)

SetItemReplacing(d, key, cb) == [k \in {key} |-> cb]

\* d[key] = cb on a Python dict.
SetItem(d, key, cb) ==
  [k \in DOMAIN d \cup {key} |-> IF k = key THEN cb ELSE d[k]]

\* ---------------------------------------------------------------- state
VARIABLES
  classCallbacks,   \* the class attribute XBoxController._callbacks
  routers,          \* the instances: their instance attributes
  nops,             \* calls made on the instances so far
  last,             \* the last call: what was called and how it ended
  loopPc,           \* runListener: "idle", "wait" (in tick), "drain", "dead"
  runner,           \* the instance whose runListener is running, 0 if none
  pending,          \* pygame's event queue
  batch,            \* the events of this tick not yet handled
  taken,            \* the list pygame.event.get() returned for this tick
  invoked           \* the callbacks invoked so far in this tick, in order

vars == <<classCallbacks, routers, nops, last,
          loopPc, runner, pending, batch, taken, invoked>>
loopVars == <<loopPc, runner, pending, batch, taken, invoked>>

\* An instance that __init__ has not completed: only class attributes.
NoRouter ==
  [alive |-> FALSE, controller |-> 0, clock |-> FALSE, own |-> FALSE,
   callbacks |-> [k \in {} |-> None], hz |-> DefaultHz,
   thr |-> DefaultThreshold, debug |-> FALSE]

\* self._callbacks: the instance attribute if setCallbacks bound one,
\* otherwise the class attribute.
RegistryOf(rs, cc, r) == IF rs[r].own THEN rs[r].callbacks ELSE cc
Registry(r) == RegistryOf(routers, classCallbacks, r)

\* The record of a call: cb is the callable given to setCallback, map the
\* dictionary given to setCallbacks, ret the value returned or the exception
\* raised, calls the callbacks invoked; quiet names the stick whose X event
\* the call before a __handleEvent left undelivered on the same instance
\* ("" if none).
Done(op, r, key, ev, ret, calls) ==
  [op |-> op, r |-> r, key |-> key, cb |-> None, map |-> [k \in {} |-> None],
   ev |-> ev, ret |-> ret, calls |-> calls, quiet |-> ""]

\* The stick of an X-axis event that the last call left undelivered.
Quiet(r) ==
  IF /\ last.op = "handleEvent" /\ last.r = r /\ last.ret = "none"
     /\ last.ev.type = "JOYAXISMOTION" /\ last.calls = <<>>
  THEN IF last.ev.idx = 0 THEN "left_stick"
       ELSE IF last.ev.idx = 2 THEN "right_stick" ELSE ""
  ELSE ""

Init ==
  /\ classCallbacks = DefaultCallbacks
  /\ routers = [r \in RouterIds |-> NoRouter]
  /\ nops = 0
  /\ last = Done("none", 0, "", NoEvent, None, <<>>)
  /\ loopPc = "idle"
  /\ runner = 0
  /\ pending = <<>>
  /\ batch = <<>>
  /\ taken = <<>>
  /\ invoked = <<>>

\* XBoxController(), devicePresent being pygame.joystick.get_count() >= 1:
\* raise(IOError, "...") raises a tuple, which is a TypeError; otherwise the
\* instance gets a joystick handle and a clock.
Construct(r, devicePresent) ==
  /\ nops < MaxOps
  /\ ~routers[r].alive
  /\ \A q \in RouterIds : q < r => routers[q].alive
  /\ nops' = nops + 1
  /\ IF devicePresent
       THEN /\ routers' = [routers EXCEPT ![r].alive = TRUE,
                                          ![r].controller = nops + 1,
                                          ![r].clock = TRUE]
            /\ last' = Done("init", r, "", NoEvent, None, <<>>)
       ELSE /\ routers' = routers
            /\ last' = Done("init", r, "", NoEvent, "TypeError", <<>>)
  /\ UNCHANGED <<classCallbacks, loopVars>>

ConnectDroppingHandle(r, devicePresent) ==
  /\ nops < MaxOps
  /\ routers[r].alive
  /\ nops' = nops + 1
  /\ IF ~devicePresent
       THEN /\ routers' = [routers EXCEPT ![r].controller = 0]
            /\ last' = Done("connect", r, "", NoEvent, "False", <<>>)
       ELSE /\ routers' = [routers EXCEPT ![r].controller = nops + 1]
            /\ last' = Done("connect", r, "", NoEvent, None, <<>>)
  /\ UNCHANGED <<classCallbacks, loopVars>>

\* connect(): False without a device; otherwise a new handle and no return
\* statement.
Connect(r, devicePresent) ==
  /\ nops < MaxOps
  /\ routers[r].alive
  /\ nops' = nops + 1
  /\ IF ~devicePresent
       THEN /\ routers' = routers
            /\ last' = Done("connect", r, "", NoEvent, "False", <<>>)
       ELSE /\ routers' = [routers EXCEPT ![r].controller = nops + 1]
            /\ last' = Done("connect", r, "", NoEvent, None, <<>>)
  /\ UNCHANGED <<classCallbacks, loopVars>>

\* setCallback(key, callback): item assignment on self._callbacks, which is
\* the class dictionary unless the instance owns one.
SetCallback(r, key, cb) ==
  /\ nops < MaxOps
  /\ routers[r].alive
  /\ nops' = nops + 1
  /\ IF routers[r].own
       THEN /\ routers' = [routers EXCEPT
                             ![r].callbacks = SetItem(routers[r].callbacks, key, cb)]
            /\ classCallbacks' = classCallbacks
       ELSE /\ classCallbacks' = SetItem(classCallbacks, key, cb)
            /\ routers' = routers
  /\ last' = [Done("setCallback", r, key, NoEvent, None, <<>>) EXCEPT !.cb = cb]
  /\ UNCHANGED loopVars

SetCallbacksMerging(r, m) ==
  /\ nops < MaxOps
  /\ routers[r].alive
  /\ nops' = nops + 1
  /\ routers' = [routers EXCEPT
                   ![r].own = TRUE,
                   ![r].callbacks = [k \in DOMAIN Registry(r) \cup DOMAIN m |->
                                       IF k \in DOMAIN m THEN m[k]
                                       ELSE Registry(r)[k]]]
  /\ last' = [Done("setCallbacks", r, "", NoEvent, None, <<>>) EXCEPT !.map = m]
  /\ UNCHANGED <<classCallbacks, loopVars>>

\* setCallbacks(callbacks): binds the instance attribute to the dictionary.
SetCallbacks(r, m) ==
  /\ nops < MaxOps
  /\ routers[r].alive
  /\ nops' = nops + 1
  /\ routers' = [routers EXCEPT ![r].own = TRUE, ![r].callbacks = m]
  /\ last' = [Done("setCallbacks", r, "", NoEvent, None, <<>>) EXCEPT !.map = m]
  /\ UNCHANGED <<classCallbacks, loopVars>>

\* setDebugCallbacks(): setCallbacks with one lambda per channel.
SetDebugCallbacks(r) ==
  /\ nops < MaxOps
  /\ routers[r].alive
  /\ nops' = nops + 1
  /\ routers' = [routers EXCEPT ![r].own = TRUE, ![r].callbacks = DebugCallbacks]
  /\ last' = [Done("setDebugCallbacks", r, "", NoEvent, None, <<>>)
                EXCEPT !.map = DebugCallbacks]
  /\ UNCHANGED <<classCallbacks, loopVars>>

SetHz(r, hz) ==
  /\ nops < MaxOps
  /\ routers[r].alive
  /\ nops' = nops + 1
  /\ routers' = [routers EXCEPT ![r].hz = hz]
  /\ last' = Done("setHz", r, "", NoEvent, None, <<>>)
  /\ UNCHANGED <<classCallbacks, loopVars>>

\* controller.sticks_threshold = t
SetThreshold(r, t) ==
  /\ nops < MaxOps
  /\ routers[r].alive
  /\ nops' = nops + 1
  /\ routers' = [routers EXCEPT ![r].thr = t]
  /\ last' = Done("sticks_threshold", r, "", NoEvent, None, <<>>)
  /\ UNCHANGED <<classCallbacks, loopVars>>

\* controller.DEBUG = True
SetDebug(r) ==
  /\ nops < MaxOps
  /\ routers[r].alive
  /\ nops' = nops + 1
  /\ routers' = [routers EXCEPT ![r].debug = TRUE]
  /\ last' = Done("DEBUG", r, "", NoEvent, None, <<>>)
  /\ UNCHANGED <<classCallbacks, loopVars>>

DispatchOneShot(r, ev) ==
  /\ nops < MaxOps
  /\ routers[r].alive
  /\ nops' = nops + 1
  /\ LET out == HandleEvent(Registry(r), routers[r].thr, routers[r].debug, ev)
         kept == IF out.calls = <<>> THEN Registry(r)
                 ELSE SetItem(Registry(r), out.calls[1].chan, None)
     IN /\ last' = [Done("handleEvent", r, "", ev, out.err, out.calls)
                      EXCEPT !.quiet = Quiet(r)]
        /\ IF routers[r].own
             THEN /\ routers' = [routers EXCEPT ![r].callbacks = kept]
                  /\ classCallbacks' = classCallbacks
             ELSE /\ classCallbacks' = kept
                  /\ routers' = routers
  /\ UNCHANGED loopVars

\* One call of __handleEvent(event) on an instance.
Dispatch(r, ev) ==
  /\ nops < MaxOps
  /\ routers[r].alive
  /\ nops' = nops + 1
  /\ LET out == HandleEvent(Registry(r), routers[r].thr, routers[r].debug, ev)
     IN last' = [Done("handleEvent", r, "", ev, out.err, out.calls)
                   EXCEPT !.quiet = Quiet(r)]
  /\ UNCHANGED <<classCallbacks, routers, loopVars>>

Next ==
  \/ \E r \in RouterIds, devicePresent \in BOOLEAN : Construct(r, devicePresent)
  \/ \E r \in RouterIds, devicePresent \in BOOLEAN : Connect(r, devicePresent)
  \/ \E r \in RouterIds, key \in Keys, cb \in Callbacks : SetCallback(r, key, cb)
  \/ \E r \in RouterIds, m \in Mappings : SetCallbacks(r, m)
  \/ \E r \in RouterIds : SetDebugCallbacks(r)
  \/ \E r \in RouterIds : SetHz(r, DemoHz)
  \/ \E r \in RouterIds, t \in {0, DemoThreshold} : SetThreshold(r, t)
  \/ \E r \in RouterIds : SetDebug(r)
  \/ \E r \in RouterIds, ev \in Events : Dispatch(r, ev)

Spec == Init /\ [][Next]_vars

\* ------------------------------------------------------------ runListener
\* The class dictionary after the six setCallback calls of the demo.
DemoCallbacks ==
  [k \in Channels |->
     IF k \in {"a", "left_stick", "right_stick", "left_trigger",
               "right_trigger", "hat"} THEN "f" ELSE None]

\* A constructed instance.
NewRouter == [NoRouter EXCEPT !.alive = TRUE, !.controller = 1, !.clock = TRUE]

\* Set-ups after which runListener is started: construction alone, the demo,
\* setDebugCallbacks, and setCallbacks with an empty or a partial dictionary.
RunSetups ==
  {[cc |-> DefaultCallbacks, router |-> NewRouter],
   [cc |-> DemoCallbacks,
    router |-> [NewRouter EXCEPT !.hz = DemoHz, !.thr = DemoThreshold]],
   [cc |-> DefaultCallbacks,
    router |-> [NewRouter EXCEPT !.own = TRUE, !.callbacks = DebugCallbacks]]}
  \cup {[cc |-> DefaultCallbacks,
         router |-> [NewRouter EXCEPT !.own = TRUE, !.callbacks = m]] :
        m \in Mappings}

\* Raw events the device reports while the listener runs.
DeviceEvents ==
  {ButtonEvent("JOYBUTTONDOWN", 0), ButtonEvent("JOYBUTTONUP", 0),
   ButtonEvent("JOYBUTTONDOWN", MaxButton),
   AxisEvent(0, 1), AxisEvent(1, MaxVal), AxisEvent(4, 0),
   AxisEvent(MaxAxis, MaxVal), HatEvent(<<1, 0>>), OtherEvent}

InitRun ==
  /\ \E s \in RunSetups, d \in BOOLEAN :
       /\ classCallbacks = s.cc
       /\ routers = [r \in RouterIds |->
                       IF r = 1 THEN [s.router EXCEPT !.debug = d] ELSE NoRouter]
  /\ nops = MaxOps
  /\ last = Done("none", 0, "", NoEvent, None, <<>>)
  /\ loopPc = "idle"
  /\ runner = 0
  /\ pending = <<>>
  /\ batch = <<>>
  /\ taken = <<>>
  /\ invoked = <<>>

\* runListener() is entered: while (1).
RunListener(r) ==
  /\ loopPc = "idle"
  /\ routers[r].alive
  /\ loopPc' = "wait"
  /\ runner' = r
  /\ last' = Done("runListener", r, "", NoEvent, None, <<>>)
  /\ UNCHANGED <<classCallbacks, routers, nops, pending, batch, taken, invoked>>

\* The device queues a raw event.  The loop reads the queue only when a tick
\* ends, so arrivals are taken while it waits in the tick.
Post(ev) ==
  /\ loopPc = "wait"
  /\ Len(pending) < MaxBatch
  /\ pending' = Append(pending, ev)
  /\ UNCHANGED <<classCallbacks, routers, nops, last,
                 loopPc, runner, batch, taken, invoked>>

\* self.__clock.tick(self.__hz) returns and pygame.event.get() empties the
\* queue into the list the for loop iterates.
Tick ==
  /\ loopPc = "wait"
  /\ taken' = pending
  /\ batch' = pending
  /\ invoked' = <<>>
  /\ pending' = <<>>
  /\ loopPc' = "drain"
  /\ UNCHANGED <<classCallbacks, routers, nops, last, runner>>

StepNewestFirst ==
  /\ loopPc = "drain"
  /\ batch # <<>>
  /\ LET r == runner
         ev == batch[Len(batch)]
         out == HandleEvent(Registry(r), routers[r].thr, routers[r].debug, ev)
     IN /\ last' = [Done("handleEvent", r, "", ev, out.err, out.calls)
                      EXCEPT !.quiet = Quiet(r)]
        /\ invoked' = invoked \o out.calls
        /\ IF out.err # "none"
             THEN /\ loopPc' = "dead"
                  /\ batch' = batch
             ELSE /\ batch' = SubSeq(batch, 1, Len(batch) - 1)
                  /\ loopPc' = "drain"
  /\ UNCHANGED <<classCallbacks, routers, nops, runner, pending, taken>>

\* One iteration of the for loop: self.__handleEvent(event) on the next
\* event of the list.  An exception leaves runListener.
Step ==
  /\ loopPc = "drain"
  /\ batch # <<>>
  /\ LET r == runner
         ev == Head(batch)
         out == HandleEvent(Registry(r), routers[r].thr, routers[r].debug, ev)
     IN /\ last' = [Done("handleEvent", r, "", ev, out.err, out.calls)
                      EXCEPT !.quiet = Quiet(r)]
        /\ invoked' = invoked \o out.calls
        /\ IF out.err # "none"
             THEN /\ loopPc' = "dead"
                  /\ batch' = batch
             ELSE /\ batch' = Tail(batch)
                  /\ loopPc' = "drain"
  /\ UNCHANGED <<classCallbacks, routers, nops, runner, pending, taken>>

\* The for loop is exhausted: the list is dropped and while (1) goes back to
\* the tick.
EndFor ==
  /\ loopPc = "drain"
  /\ batch = <<>>
  /\ loopPc' = "wait"
  /\ taken' = <<>>
  /\ invoked' = <<>>
  /\ UNCHANGED <<classCallbacks, routers, nops, last, runner, pending, batch>>

NextRun ==
  \/ \E r \in RouterIds : RunListener(r)
  \/ \E ev \in DeviceEvents : Post(ev)
  \/ Tick
  \/ Step
  \/ EndFor

SpecRun == InitRun /\ [][NextRun]_vars

\* --------------------------------------------------------------- claims
\* The channel whose callback __handleEvent looks up for an event, "" if none.
ChannelOf(ev) ==
  IF ev.type \in {"JOYBUTTONDOWN", "JOYBUTTONUP"}
    THEN IF ev.idx \in DOMAIN BUTTONS THEN BUTTONS[ev.idx] ELSE ""
  ELSE IF ev.type = "JOYAXISMOTION"
    THEN IF ev.idx \in {0, 1} THEN "left_stick"
         ELSE IF ev.idx \in {2, 3} THEN "right_stick"
         ELSE IF ev.idx = 4 THEN "left_trigger"
         ELSE IF ev.idx = 5 THEN "right_trigger" ELSE ""
  ELSE IF ev.type = "JOYHATMOTION" THEN "hat"
  ELSE ""

\* The callback an instance has for a channel, None when the channel is unset.
Bound(r, chan) ==
  IF chan \in DOMAIN Registry(r) THEN Registry(r)[chan] ELSE None

\* C1: setCallback with a key that is not one of the 15 channel names is
\* rejected with UnknownChannel and the key does not enter the registry.
C1_UnknownChannelRejected ==
  (last.op = "setCallback" /\ last.key \notin Channels) =>
    /\ last.ret = "UnknownChannel"
    /\ last.key \notin DOMAIN Registry(last.r)

\* C2: handling an event whose channel has no callback, after any
\* registrations, invokes nothing and raises nothing.
C2_UnsetChannelSilent ==
  (/\ last.op = "handleEvent"
   /\ ChannelOf(last.ev) # ""
   /\ Bound(last.r, ChannelOf(last.ev)) = None) =>
    /\ last.ret = "none"
    /\ last.calls = <<>>

\* C3: a newly constructed router has all 15 channels unset, whatever was
\* registered on other instances before.
C3_FreshRegistry ==
  (last.op = "init" /\ last.ret = None) =>
    \A k \in Channels : Bound(last.r, k) = None

\* C4: connect() returns a boolean: True when a device was acquired, False
\* when none is present.
C4_ConnectReturnsBool ==
  last.op = "connect" =>
    /\ last.ret \in {"True", "False"}
    /\ last.ret = "True" <=> routers[last.r].controller = nops

\* C5: with DEBUG set, __handleEvent invokes the same callbacks and raises in
\* the same cases as with DEBUG clear.
C5_DebugTransparent ==
  (last.op = "handleEvent" /\ routers[last.r].debug) =>
    LET r == last.r
        other == HandleEvent(Registry(r), routers[r].thr, ~routers[r].debug,
                             last.ev)
    IN other.err = last.ret /\ other.calls = last.calls

\* C6: runListener never leaves its loop, whatever events arrive and whatever
\* was registered.
C6_LoopNeverLeaves == loopPc # "dead"

\* C7: a button-down event with index 0..9 invokes the callback bound to the
\* channel of that index with 0, a button-up event with 1, and nothing is
\* invoked when the channel has no callback.
C7_ButtonPolarity ==
  (/\ last.op = "handleEvent"
   /\ last.ev.type \in {"JOYBUTTONDOWN", "JOYBUTTONUP"}
   /\ last.ev.idx \in 0..9) =>
    LET names == <<"a", "b", "x", "y", "left_bumper", "right_bumper", "back",
                   "start", "left_stick_button", "right_stick_button">>
        chan == names[last.ev.idx + 1]
        cb == Bound(last.r, chan)
        state == IF last.ev.type = "JOYBUTTONDOWN" THEN 0 ELSE 1
    IN IF cb # None
         THEN last.ret = "none" /\ last.calls = <<Call(chan, cb, <<state>>)>>
         ELSE last.calls = <<>>

C7_Witness ==
  /\ last.op = "handleEvent"
  /\ routers[last.r].debug
  /\ last.ev = ButtonEvent("JOYBUTTONDOWN", 9)
  /\ last.calls = <<Call("right_stick_button", "dbg", <<0>>)>>

\* C8: a stick axis event with abs(value) > threshold invokes the stick's
\* callback once with (0, value) for X or (1, -value) for Y; with
\* abs(value) <= threshold nothing is invoked; a Y event is delivered also
\* right after an X event that stayed inside the dead-zone.
C8_StickDeadZone ==
  (/\ last.op = "handleEvent"
   /\ last.ev.type = "JOYAXISMOTION"
   /\ last.ev.idx \in 0..3) =>
    LET chan == IF last.ev.idx \in {0, 1} THEN "left_stick" ELSE "right_stick"
        cb == Bound(last.r, chan)
        v == last.ev.val[1]
        thr == routers[last.r].thr
        isX == last.ev.idx \in {0, 2}
        args == IF isX THEN <<0, v>> ELSE <<1, 0 - v>>
    IN /\ (Abs(v) > thr /\ cb # None) =>
            last.ret = "none" /\ last.calls = <<Call(chan, cb, args)>>
       /\ (Abs(v) <= thr \/ cb = None) => last.calls = <<>>
       /\ Abs(v) <= thr => last.ret = "none"
       /\ (last.quiet = chan /\ ~isX /\ Abs(v) > thr /\ cb # None) =>
            last.calls = <<Call(chan, cb, <<1, 0 - v>>)>>

C8_Witness ==
  /\ last.op = "handleEvent"
  /\ last.quiet = "left_stick"
  /\ last.ev = AxisEvent(1, MaxVal)
  /\ last.calls = <<Call("left_stick", "f", <<1, 0 - MaxVal>>)>>

\* C9: an axis event on raw axis 4 (5) invokes the left_trigger
\* (right_trigger) callback, if set, with the raw value, for every value and
\* every threshold.
C9_TriggerAlways ==
  (/\ last.op = "handleEvent"
   /\ last.ev.type = "JOYAXISMOTION"
   /\ last.ev.idx \in {4, 5}) =>
    LET chan == IF last.ev.idx = 4 THEN "left_trigger" ELSE "right_trigger"
        cb == Bound(last.r, chan)
    IN cb # None =>
         last.ret = "none" /\ last.calls = <<Call(chan, cb, last.ev.val)>>

C9_Witness ==
  /\ last.op = "handleEvent"
  /\ last.ev = AxisEvent(5, -1)
  /\ routers[last.r].thr = DemoThreshold
  /\ last.calls = <<Call("right_trigger", "g", <<-1>>)>>

\* C10: setCallback with one of the 15 channel names binds that channel to
\* the callback and leaves every other channel, the threshold and the poll
\* rate as they were.
C10_SetCallbackFrame ==
  [][(last'.op = "setCallback" /\ nops' = nops + 1 /\ last'.key \in Channels) =>
       LET r == last'.r
           pre == Registry(r)
           post == RegistryOf(routers', classCallbacks', r)
       IN /\ last'.key \in DOMAIN post
          /\ post[last'.key] = last'.cb
          /\ \A k \in Channels \ {last'.key} :
               /\ k \in DOMAIN post <=> k \in DOMAIN pre
               /\ k \in DOMAIN pre => post[k] = pre[k]
          /\ routers'[r].thr = routers[r].thr
          /\ routers'[r].hz = routers[r].hz]_vars

C10_Witness ==
  /\ last.op = "setCallback"
  /\ last.key = "a"
  /\ Bound(last.r, "a") = "g"
  /\ Bound(last.r, "left_stick") = "f"
  /\ routers[last.r].hz = DemoHz

\* C11: setCallbacks replaces the whole registry: afterwards every channel of
\* the dictionary is bound to the dictionary's callback and every other
\* channel is unset, whatever was registered before.
C11_SetCallbacksReplaces ==
  [][(last'.op = "setCallbacks" /\ nops' = nops + 1) =>
       LET r == last'.r
           m == last'.map
           post == RegistryOf(routers', classCallbacks', r)
           bound(k) == IF k \in DOMAIN post THEN post[k] ELSE None
       IN \A k \in Channels :
            bound(k) = IF k \in DOMAIN m THEN m[k] ELSE None]_vars

C11_Witness ==
  /\ last.op = "setCallbacks"
  /\ classCallbacks["left_stick"] = "f"
  /\ Bound(last.r, "left_stick") = None
  /\ Bound(last.r, "hat") = "g"

\* C12: constructing a router when no device is present fails with the
\* device-unavailable error (the IOError "No controller detected") and
\* produces no instance.
C12_DeviceUnavailable ==
  (last.op = "init" /\ last.ret # None) =>
    /\ last.ret = "IOError"
    /\ ~routers[last.r].alive
    /\ routers[last.r].controller = 0
    /\ ~routers[last.r].clock

\* The callbacks __handleEvent invokes for a list of events handled in order
\* by the running instance.
RECURSIVE CallsOf(_)
CallsOf(evs) ==
  IF evs = <<>> THEN <<>>
  ELSE HandleEvent(Registry(runner), routers[runner].thr,
                   routers[runner].debug, Head(evs)).calls
       \o CallsOf(Tail(evs))

\* C13: each tick drains all pending events, dispatches them in arrival
\* order (the invocations follow the order of the events), and the next tick
\* wait begins only when every event of the batch has been dispatched.
C13_TickOrder ==
  /\ [](/\ loopPc = "wait" => batch = <<>>
        /\ loopPc \in {"drain", "dead"} =>
             LET n == Len(taken) - Len(batch)
             IN /\ n >= 0
                /\ batch = SubSeq(taken, n + 1, Len(taken))
                /\ invoked = CallsOf(SubSeq(taken, 1, n)))
  /\ [][/\ (loopPc = "wait" /\ loopPc' = "drain") =>
             taken' = pending /\ batch' = pending /\ pending' = <<>>
        /\ (loopPc = "drain" /\ loopPc' = "wait") =>
             batch = <<>> /\ invoked = CallsOf(taken)]_vars

C13_Witness ==
  /\ loopPc = "drain"
  /\ batch = <<>>
  /\ taken = <<ButtonEvent("JOYBUTTONDOWN", 0), ButtonEvent("JOYBUTTONUP", 0)>>
  /\ invoked = <<Call("a", "f", <<0>>), Call("a", "f", <<1>>)>>

\* C14: two routers that differ only in the dead-zone threshold and handle
\* the same stick event differ at most in whether the callback is invoked:
\* when both invoke it, channel, axis and value are the same.
C14_ThresholdOnlyGates ==
  (/\ last.op = "handleEvent"
   /\ last.ev.type = "JOYAXISMOTION"
   /\ last.ev.idx \in 0..3) =>
    \A t \in 0..MaxVal :
      LET other == HandleEvent(Registry(last.r), t, routers[last.r].debug,
                               last.ev)
      IN (other.calls # <<>> /\ last.calls # <<>>) => other.calls = last.calls

C14_Witness ==
  /\ last.op = "handleEvent"
  /\ last.ev = AxisEvent(1, -1)
  /\ routers[last.r].thr = 0
  /\ last.calls = <<Call("left_stick", "f", <<1, 1>>)>>
  /\ HandleEvent(Registry(last.r), DefaultThreshold, routers[last.r].debug,
                 last.ev).calls = <<>>

\* C15: connect() that finds no device (it returns False) leaves the device
\* handle, the registry, the poll rate and the threshold as they were.
C15_ConnectFailureFrame ==
  [][(last'.op = "connect" /\ nops' = nops + 1 /\ last'.ret = "False") =>
       LET r == last'.r
       IN /\ routers'[r].controller = routers[r].controller
          /\ RegistryOf(routers', classCallbacks', r) = Registry(r)
          /\ routers'[r].hz = routers[r].hz
          /\ routers'[r].thr = routers[r].thr]_vars

C15_Witness ==
  /\ last.op = "connect"
  /\ last.ret = "False"
  /\ routers[last.r].controller # 0
  /\ Bound(last.r, "a") = "f"
  /\ routers[last.r].thr = DemoThreshold

\* C16: a hat motion invokes the hat callback, if set, with the raw pair
\* unchanged; an event of any other kind than button, axis or hat invokes
\* nothing and raises nothing.
C16_HatAndOther ==
  last.op = "handleEvent" =>
    /\ (last.ev.type = "JOYHATMOTION" /\ Bound(last.r, "hat") # None) =>
         /\ last.ret = "none"
         /\ last.calls = <<Call("hat", Bound(last.r, "hat"), last.ev.val)>>
    /\ last.ev.type \notin {"JOYBUTTONDOWN", "JOYBUTTONUP", "JOYAXISMOTION",
                            "JOYHATMOTION"} =>
         last.ret = "none" /\ last.calls = <<>>

C16_Witness ==
  /\ last.op = "handleEvent"
  /\ last.ev = HatEvent(<<-1, 1>>)
  /\ last.calls = <<Call("hat", "g", <<-1, 1>>)>>

\* C17: one __handleEvent invokes at most one callback, at most once, and the
\* channel invoked depends only on the event's kind and raw index: it is the
\* channel any event of that kind and index reaches on a router with every
\* channel bound and no dead-zone.
C17_OneCallbackByKindAndIndex ==
  last.op = "handleEvent" =>
    /\ Len(last.calls) <= 1
    /\ last.calls # <<>> =>
         /\ last.calls[1].chan = ChannelOf(last.ev)
         /\ last.calls[1].cb = Bound(last.r, ChannelOf(last.ev))
         /\ \A ev \in Events :
              (ev.type = last.ev.type /\ ev.idx = last.ev.idx) =>
                LET out == HandleEvent(DebugCallbacks, 0, FALSE, ev)
                IN out.calls # <<>> => out.calls[1].chan = last.calls[1].chan

C17_Witness ==
  /\ last.op = "handleEvent"
  /\ last.ev = ButtonEvent("JOYBUTTONUP", 3)
  /\ last.calls = <<Call("y", "dbg", <<1>>)>>

\* C18: __handleEvent changes no router state: the registry, the threshold,
\* the poll rate and the device handle are the same after it as before,
\* whether a callback was invoked, the event was suppressed or an error was
\* raised.
C18_HandleEventFrame ==
  [][(last'.op = "handleEvent" /\ nops' = nops + 1) =>
       /\ classCallbacks' = classCallbacks
       /\ routers' = routers]_vars

C18_Witness ==
  /\ last.op = "handleEvent"
  /\ last.calls # <<>>
  /\ Bound(last.r, "right_trigger") = "g"
  /\ last.calls[1].cb = "g"
  /\ routers[last.r].hz = DemoHz

\* C19: a button event whose raw index is outside 0..9 invokes nothing and
\* ends in an error; an axis event whose raw index is outside 0..5 is ignored
\* without error when DEBUG is clear.
C19_UnmappedIndex ==
  last.op = "handleEvent" =>
    /\ (last.ev.type \in {"JOYBUTTONDOWN", "JOYBUTTONUP"}
        /\ last.ev.idx \notin 0..9) =>
         last.ret = "KeyError" /\ last.calls = <<>>
    /\ (last.ev.type = "JOYAXISMOTION" /\ last.ev.idx \notin 0..5
        /\ ~routers[last.r].debug) =>
         last.ret = "none" /\ last.calls = <<>>

C19_Witness ==
  /\ last.op = "handleEvent"
  /\ last.ev = ButtonEvent("JOYBUTTONUP", MaxButton)
  /\ Registry(last.r) = DebugCallbacks
  /\ last.ret = "KeyError"
  /\ last.calls = <<>>

====
